---------------------------- MODULE Spec2Model ----------------------------
(***************************************************************************)
(* Transaction pipeline of the token CLI: every process_* operation builds *)
(* one instruction, assembles a message with the signer as fee payer,      *)
(* fetches a blockhash, signs, and submits with preflight disabled.        *)
(* One behaviour is one invocation of one process_* operation.             *)
(***************************************************************************)
EXTENDS Integers, Sequences, FiniteSets, TLC

VARIABLES
    inv,      \* the invocation: operation name and its parameters
    curve,    \* environment: per deriving program, the bump seeds whose hash is off-curve
    pc,       \* position inside the async fn
    tx,       \* the Transaction local (message + signatures), NoTx before it is built
    calls,    \* every RpcClient method invoked so far, with its response
    blockhash,\* the local holding the fetched blockhash
    result,   \* the Result returned to the caller, NoResult while running
    stages,   \* history: pipeline stages completed, in order
    main,     \* the CLI's main: its inputs, position, locals and exit code
    sched     \* concurrent invocations: the running one and the suspended locals

vars == <<inv, curve, pc, tx, calls, blockhash, result, stages, main, sched>>

-----------------------------------------------------------------------------
(* Bounds of the model *)

\* blockhashes the node may answer with: "h1" .. "h<MaxBlockhash>"
MaxBlockhash == 2
\* wallets other than the signer: receivers, new authorities, foreign signers
NumWallets == 2

-----------------------------------------------------------------------------
(* Addresses *)

Key(n) == <<"key", n, 0>>
Bytes(s) == <<"bytes", s, 0>>
Pda(program_id, seeds, bump) == <<"pda", program_id, seeds, bump>>

system_program_ID == Key("system_program")
spl_token_ID == Key("spl_token")
spl_associated_token_account_ID == Key("spl_associated_token_account")
MPL_TOKEN_METADATA_ID == Key("mpl_token_metadata")
sysvar_instructions_ID == Key("sysvar_instructions")
bridge_program_ID == Key("bridge_program")

\* config.default_signer.pubkey()
SignerKey == Key("signer")
Wallet(i) == <<"key", "wallet", i>>
Wallets == {Wallet(i) : i \in 1..NumWallets}
Mints == {Key("mintA")}
\* --program_id given on the command line, or bridge_program::ID
ProgramIds == {bridge_program_ID, Key("other_program")}
DerivingPrograms == ProgramIds \cup {spl_associated_token_account_ID, MPL_TOKEN_METADATA_ID}

\* u64 amounts the model draws (all below 2^31, TLC's integer width)
Amounts == {0, 1, 255, 256, 1000000}

Blockhashes == {<<"h", i>> : i \in 1..MaxBlockhash}
UnsetBlockhash == <<"h", 0>>

-----------------------------------------------------------------------------
(* Address derivation *)

\* The bump sets the environment may present for a deriving program: every
\* candidate off-curve, only two low candidates off-curve, only the untried
\* candidate 0 off-curve, every candidate on-curve.
BumpSets == {0..255, {253, 7}, {0}, {}}

\* try_find_program_address: the candidates 255, 254, .. 1 are tried in this
\* order (255 iterations) and the first whose hash is off-curve wins; 0
\* stands for None.
TryBump(off) ==
    LET tried == off \cap (1..255)
    IN  IF tried = {} THEN 0
        ELSE CHOOSE b \in tried : \A c \in tried : c <= b

\* Pubkey::find_program_address: panics when no candidate is found.
find_program_address(seeds, program_id) ==
    LET bump == TryBump(curve[program_id])
    IN  IF bump = 0
        THEN [panicked |-> TRUE, address |-> Key("none"), bump |-> 0]
        ELSE [panicked |-> FALSE, address |-> Pda(program_id, seeds, bump), bump |-> bump]

get_associated_token_address(wallet, mint) ==
    find_program_address(<<wallet, spl_token_ID, mint>>, spl_associated_token_account_ID)

Metadata_find_pda(mint) ==
    find_program_address(<<Bytes("metadata"), MPL_TOKEN_METADATA_ID, mint>>,
                         MPL_TOKEN_METADATA_ID)

-----------------------------------------------------------------------------
(* Binary encoding *)

\* little-endian encoding of n in k bytes (Borsh u64: k = 8)
RECURSIVE LittleEndian(_, _)
LittleEndian(n, k) ==
    IF k = 0 THEN <<>> ELSE <<n % 256>> \o LittleEndian(n \div 256, k - 1)

\* utils::get_function_hash: the first 8 bytes of sha256("<namespace>:<name>")
get_function_hash(namespace, name) ==
    CASE namespace = "global" /\ name = "add_liquidity" ->
            <<181, 157, 89, 67, 143, 182, 52, 72>>
      [] namespace = "global" /\ name = "remove_liquidity" ->
            <<80, 85, 209, 72, 24, 206, 177, 108>>

\* AddLiquidity { amount }.try_to_vec()
AddLiquidity_try_to_vec(amount) == LittleEndian(amount, 8)

-----------------------------------------------------------------------------
(* Instructions *)

AccountMeta_new(pubkey, is_signer) ==
    [pubkey |-> pubkey, is_signer |-> is_signer, is_writable |-> TRUE]
AccountMeta_new_readonly(pubkey, is_signer) ==
    [pubkey |-> pubkey, is_signer |-> is_signer, is_writable |-> FALSE]

Instruction(program_id, data, accounts) ==
    [program_id |-> program_id, accounts |-> accounts, data |-> data]

Panicked == [panicked |-> TRUE]
Built(ix, keypairs) == [panicked |-> FALSE, ix |-> ix, keypairs |-> keypairs]

None == <<"None">>
Some(v) == <<"Some", v>>

\* the signer capabilities handed to try_sign: the CLI's default signer is a
\* dyn Signer (a key file or a remote wallet), the mint is a local Keypair
DynSigner(pubkey) == [pubkey |-> pubkey, local |-> FALSE]
Keypair(pubkey) == [pubkey |-> pubkey, local |-> TRUE]

\* an optional account of the metadata program's builders, left unset
Unset == AccountMeta_new_readonly(MPL_TOKEN_METADATA_ID, FALSE)

RECURSIVE SignerMetas(_)
SignerMetas(signer_pubkeys) ==
    IF signer_pubkeys = <<>> THEN <<>>
    ELSE <<AccountMeta_new_readonly(Head(signer_pubkeys), TRUE)>>
         \o SignerMetas(Tail(signer_pubkeys))

\* spl_token::instruction::set_authority
set_authority(token_program_id, owned, new_authority, authority_type, owner, signer_pubkeys) ==
    Instruction(token_program_id,
        [instruction |-> "SetAuthority", authority_type |-> authority_type,
         new_authority |-> new_authority],
        << AccountMeta_new(owned, FALSE),
           AccountMeta_new_readonly(owner, signer_pubkeys = <<>>) >>
        \o SignerMetas(signer_pubkeys))

\* spl_token::instruction::thaw_account
thaw_account(token_program_id, account, mint, owner, signer_pubkeys) ==
    Instruction(token_program_id,
        [instruction |-> "ThawAccount"],
        << AccountMeta_new(account, FALSE),
           AccountMeta_new_readonly(mint, FALSE),
           AccountMeta_new_readonly(owner, signer_pubkeys = <<>>) >>
        \o SignerMetas(signer_pubkeys))

\* variant: depositor and mint exchanged in the account list
AddLiquidityAccounts_Swapped(signer, bridge_pda, vault_ata, signer_ata, mint_of_token_sent) ==
    << AccountMeta_new(bridge_pda, FALSE),
       AccountMeta_new(vault_ata, FALSE),
       AccountMeta_new_readonly(mint_of_token_sent, FALSE),
       AccountMeta_new_readonly(signer, TRUE),
       AccountMeta_new(signer_ata, FALSE),
       AccountMeta_new_readonly(system_program_ID, FALSE),
       AccountMeta_new_readonly(spl_token_ID, FALSE),
       AccountMeta_new_readonly(spl_associated_token_account_ID, FALSE) >>

\* add_liquidity.rs: the account list of the bridge program's add_liquidity
AddLiquidityAccounts(signer, bridge_pda, vault_ata, signer_ata, mint_of_token_sent) ==
    << AccountMeta_new(bridge_pda, FALSE),
       AccountMeta_new(vault_ata, FALSE),
       AccountMeta_new_readonly(signer, TRUE),
       AccountMeta_new_readonly(mint_of_token_sent, FALSE),
       AccountMeta_new(signer_ata, FALSE),
       AccountMeta_new_readonly(system_program_ID, FALSE),
       AccountMeta_new_readonly(spl_token_ID, FALSE),
       AccountMeta_new_readonly(spl_associated_token_account_ID, FALSE) >>

\* add_liquidity.rs: method_bytes = discriminator ++ borsh(AddLiquidity { amount })
AddLiquidityData(amount) ==
    get_function_hash("global", "add_liquidity") \o AddLiquidity_try_to_vec(amount)

\* process_add_liquidity up to the unsigned transaction
AddLiquidityBuild(signer, program_id, amount, mint_of_token_sent) ==
    LET bridge == find_program_address(<<Bytes("bridge_state")>>, program_id)
        vault == get_associated_token_address(bridge.address, mint_of_token_sent)
        own == get_associated_token_address(signer, mint_of_token_sent)
    IN  IF bridge.panicked \/ vault.panicked \/ own.panicked
        THEN Panicked
        ELSE Built(Instruction(program_id, AddLiquidityData(amount),
                       AddLiquidityAccounts(signer, bridge.address, vault.address,
                                            own.address, mint_of_token_sent)),
                   <<DynSigner(signer)>>)

\* process_update_authorities: the instruction is the caller's
UpdateAuthoritiesBuild(signer, ix) == Built(ix, <<DynSigner(signer)>>)

\* variant: the mint keypair is not handed to the signing step
CreateTokenBuild_PayerOnly(signer, mint, decimals, name, symbol, uri) ==
    LET metadata == Metadata_find_pda(mint)
    IN  IF metadata.panicked
        THEN Panicked
        ELSE Built(Instruction(MPL_TOKEN_METADATA_ID,
                       [instruction |-> "CreateV1", name |-> name, symbol |-> symbol,
                        uri |-> uri, seller_fee_basis_points |-> 0,
                        primary_sale_happened |-> FALSE, is_mutable |-> TRUE,
                        token_standard |-> "Fungible", decimals |-> decimals],
                       << AccountMeta_new(metadata.address, FALSE),
                          Unset,
                          AccountMeta_new(mint, TRUE),
                          AccountMeta_new_readonly(signer, TRUE),
                          AccountMeta_new(signer, TRUE),
                          AccountMeta_new_readonly(signer, TRUE),
                          AccountMeta_new_readonly(system_program_ID, FALSE),
                          AccountMeta_new_readonly(sysvar_instructions_ID, FALSE),
                          AccountMeta_new_readonly(spl_token_ID, FALSE) >>),
                   <<DynSigner(signer)>>)

\* process_create_token: CreateV1Builder ... .instruction()
CreateTokenBuild(signer, mint, decimals, name, symbol, uri) ==
    LET metadata == Metadata_find_pda(mint)
    IN  IF metadata.panicked
        THEN Panicked
        ELSE Built(Instruction(MPL_TOKEN_METADATA_ID,
                       [instruction |-> "CreateV1", name |-> name, symbol |-> symbol,
                        uri |-> uri, seller_fee_basis_points |-> 0,
                        primary_sale_happened |-> FALSE, is_mutable |-> TRUE,
                        token_standard |-> "Fungible", decimals |-> decimals],
                       << AccountMeta_new(metadata.address, FALSE),
                          Unset,
                          AccountMeta_new(mint, TRUE),
                          AccountMeta_new_readonly(signer, TRUE),
                          AccountMeta_new(signer, TRUE),
                          AccountMeta_new_readonly(signer, TRUE),
                          AccountMeta_new_readonly(system_program_ID, FALSE),
                          AccountMeta_new_readonly(sysvar_instructions_ID, FALSE),
                          AccountMeta_new_readonly(spl_token_ID, FALSE) >>),
                   <<DynSigner(signer), Keypair(mint)>>)

\* process_mint_to: MintV1Builder ... .instruction()
MintToBuild(signer, mint_pubkey, receiver_pubkey, amount) ==
    LET receiver_ata == get_associated_token_address(receiver_pubkey, mint_pubkey)
        metadata == Metadata_find_pda(mint_pubkey)
    IN  IF receiver_ata.panicked \/ metadata.panicked
        THEN Panicked
        ELSE Built(Instruction(MPL_TOKEN_METADATA_ID,
                       [instruction |-> "MintV1", amount |-> amount],
                       << AccountMeta_new(receiver_ata.address, FALSE),
                          AccountMeta_new_readonly(receiver_pubkey, FALSE),
                          AccountMeta_new_readonly(metadata.address, FALSE),
                          Unset,
                          Unset,
                          AccountMeta_new(mint_pubkey, FALSE),
                          AccountMeta_new_readonly(signer, TRUE),
                          Unset,
                          AccountMeta_new(signer, TRUE),
                          AccountMeta_new_readonly(system_program_ID, FALSE),
                          AccountMeta_new_readonly(sysvar_instructions_ID, FALSE),
                          AccountMeta_new_readonly(spl_token_ID, FALSE),
                          AccountMeta_new_readonly(spl_associated_token_account_ID, FALSE),
                          Unset,
                          Unset >>),
                   <<DynSigner(signer)>>)

\* process_transfer_to: TransferV1Builder ... .instruction()
TransferToBuild(signer, mint_pubkey, receiver_pubkey, amount) ==
    LET metadata == Metadata_find_pda(mint_pubkey)
        receiver_ata == get_associated_token_address(receiver_pubkey, mint_pubkey)
        signer_ata == get_associated_token_address(signer, mint_pubkey)
    IN  IF metadata.panicked \/ receiver_ata.panicked \/ signer_ata.panicked
        THEN Panicked
        ELSE Built(Instruction(MPL_TOKEN_METADATA_ID,
                       [instruction |-> "TransferV1", amount |-> amount],
                       << AccountMeta_new(signer_ata.address, FALSE),
                          AccountMeta_new_readonly(signer, FALSE),
                          AccountMeta_new(receiver_ata.address, FALSE),
                          AccountMeta_new_readonly(receiver_pubkey, FALSE),
                          AccountMeta_new_readonly(mint_pubkey, FALSE),
                          AccountMeta_new(metadata.address, FALSE),
                          Unset,
                          Unset,
                          Unset,
                          AccountMeta_new_readonly(signer, TRUE),
                          AccountMeta_new(signer, TRUE),
                          AccountMeta_new_readonly(system_program_ID, FALSE),
                          AccountMeta_new_readonly(sysvar_instructions_ID, FALSE),
                          AccountMeta_new_readonly(spl_token_ID, FALSE),
                          AccountMeta_new_readonly(spl_associated_token_account_ID, FALSE),
                          Unset,
                          Unset >>),
                   <<DynSigner(signer)>>)

\* process_unfreeze_account: thaw_account(...).unwrap()
UnfreezeBuild(signer, mint_pubkey, receiver_pubkey) ==
    LET receiver_ata == get_associated_token_address(receiver_pubkey, mint_pubkey)
    IN  IF receiver_ata.panicked
        THEN Panicked
        ELSE Built(thaw_account(spl_token_ID, receiver_ata.address, mint_pubkey,
                                signer, <<signer>>),
                   <<DynSigner(signer)>>)

\* spl_token::instruction::freeze_account
freeze_account(token_program_id, account, mint, owner, signer_pubkeys) ==
    Instruction(token_program_id,
        [instruction |-> "FreezeAccount"],
        << AccountMeta_new(account, FALSE),
           AccountMeta_new_readonly(mint, FALSE),
           AccountMeta_new_readonly(owner, signer_pubkeys = <<>>) >>
        \o SignerMetas(signer_pubkeys))

\* freeze::process_freeze_account: the counterpart of process_unfreeze_account
FreezeBuild(signer, mint_pubkey, account) ==
    LET ata == get_associated_token_address(account, mint_pubkey)
    IN  IF ata.panicked
        THEN Panicked
        ELSE Built(freeze_account(spl_token_ID, ata.address, mint_pubkey,
                                  signer, <<signer>>),
                   <<DynSigner(signer)>>)

\* UpdateMetadataAccountV2Builder::new() and what instruction() makes of it:
\* the two accounts are required, the three arguments optional
UpdateMetadataAccountV2Builder_new ==
    [metadata |-> None, update_authority |-> None, data |-> None,
     new_update_authority |-> None, is_mutable |-> None]

\* update_metadata::process_update_metadata: the instruction of the builder
\* main has configured, signed by the update authority
UpdateMetadataBuild(signer, builder) ==
    IF builder.metadata = None \/ builder.update_authority = None
    THEN Panicked
    ELSE Built(Instruction(MPL_TOKEN_METADATA_ID,
                  [instruction |-> "UpdateMetadataAccountV2", data |-> builder.data,
                   new_update_authority |-> builder.new_update_authority,
                   is_mutable |-> builder.is_mutable],
                  << AccountMeta_new(builder.metadata[2], FALSE),
                     AccountMeta_new_readonly(builder.update_authority[2], TRUE) >>),
               <<DynSigner(signer)>>)

-----------------------------------------------------------------------------
(* Message and transaction (solana_sdk) *)

\* variant: no deduplication, one entry per reference
Unique_Keep(seq, seen) == seq

RECURSIVE Unique(_, _)
\* the elements of seq not in seen, each once, in order of first appearance
Unique(seq, seen) ==
    IF seq = <<>> THEN <<>>
    ELSE IF Head(seq) \in seen THEN Unique(Tail(seq), seen)
    ELSE <<Head(seq)>> \o Unique(Tail(seq), seen \cup {Head(seq)})

RECURSIVE InstructionMetas(_)
\* every account reference of the instructions, the program ids included
InstructionMetas(instructions) ==
    IF instructions = <<>> THEN <<>>
    ELSE <<AccountMeta_new_readonly(Head(instructions).program_id, FALSE)>>
         \o Head(instructions).accounts
         \o InstructionMetas(Tail(instructions))

IndexOf(seq, x) == CHOOSE i \in DOMAIN seq : seq[i] = x

\* variant: Message::new(instructions, None): no fee-payer role added
Message_new_NoPayer(instructions, payer) ==
    LET metas == InstructionMetas(instructions)
        keys == Unique([i \in DOMAIN metas |-> metas[i].pubkey], {})
        signs(k) == \E i \in DOMAIN metas : metas[i].pubkey = k /\ metas[i].is_signer
        writes(k) == \E i \in DOMAIN metas : metas[i].pubkey = k /\ metas[i].is_writable
        ws(k) == signs(k) /\ writes(k)
        rs(k) == signs(k) /\ ~writes(k)
        wn(k) == ~signs(k) /\ writes(k)
        rn(k) == ~signs(k) /\ ~writes(k)
        account_keys == SelectSeq(keys, ws) \o SelectSeq(keys, rs)
                        \o SelectSeq(keys, wn) \o SelectSeq(keys, rn)
    IN  [header |->
            [num_required_signatures |-> Len(SelectSeq(keys, signs)),
             num_readonly_signed_accounts |-> Len(SelectSeq(keys, rs)),
             num_readonly_unsigned_accounts |-> Len(SelectSeq(keys, rn))],
         account_keys |-> account_keys,
         recent_blockhash |-> UnsetBlockhash,
         instructions |->
            [n \in DOMAIN instructions |->
                [program_id_index |-> IndexOf(account_keys, instructions[n].program_id),
                 accounts |-> [j \in DOMAIN instructions[n].accounts |->
                     IndexOf(account_keys, instructions[n].accounts[j].pubkey)],
                 data |-> instructions[n].data]]]

\* Message::new(instructions, Some(payer)): one entry per distinct address,
\* flags OR-ed over its references, the payer a writable signer and first;
\* then writable signers, readonly signers, writable and readonly non-signers
Message_new(instructions, payer) ==
    LET metas == <<AccountMeta_new(payer, TRUE)>> \o InstructionMetas(instructions)
        keys == Unique([i \in DOMAIN metas |-> metas[i].pubkey], {})
        signs(k) == \E i \in DOMAIN metas : metas[i].pubkey = k /\ metas[i].is_signer
        writes(k) == \E i \in DOMAIN metas : metas[i].pubkey = k /\ metas[i].is_writable
        ws(k) == signs(k) /\ writes(k)
        rs(k) == signs(k) /\ ~writes(k)
        wn(k) == ~signs(k) /\ writes(k)
        rn(k) == ~signs(k) /\ ~writes(k)
        account_keys == SelectSeq(keys, ws) \o SelectSeq(keys, rs)
                        \o SelectSeq(keys, wn) \o SelectSeq(keys, rn)
    IN  [header |->
            [num_required_signatures |-> Len(SelectSeq(keys, signs)),
             num_readonly_signed_accounts |-> Len(SelectSeq(keys, rs)),
             num_readonly_unsigned_accounts |-> Len(SelectSeq(keys, rn))],
         account_keys |-> account_keys,
         recent_blockhash |-> UnsetBlockhash,
         instructions |->
            [n \in DOMAIN instructions |->
                [program_id_index |-> IndexOf(account_keys, instructions[n].program_id),
                 accounts |-> [j \in DOMAIN instructions[n].accounts |->
                     IndexOf(account_keys, instructions[n].accounts[j].pubkey)],
                 data |-> instructions[n].data]]]

DefaultSignature == [signer |-> Key("default"), blockhash |-> UnsetBlockhash]

\* Signer::try_sign_message over the serialized message
SignMessage(keypair, message) ==
    [signer |-> keypair.pubkey, blockhash |-> message.recent_blockhash]

Transaction_new_unsigned(message) ==
    [message |-> message,
     signatures |-> [i \in 1..message.header.num_required_signatures |-> DefaultSignature]]

NoTx == [message |-> [header |-> [num_required_signatures |-> 0,
                                  num_readonly_signed_accounts |-> 0,
                                  num_readonly_unsigned_accounts |-> 0],
                      account_keys |-> <<>>,
                      recent_blockhash |-> UnsetBlockhash,
                      instructions |-> <<>>],
         signatures |-> <<>>]

\* the accounts that must sign: the first num_required_signatures keys
SignedKeys(message) == SubSeq(message.account_keys, 1, message.header.num_required_signatures)

is_signed(t) == \A i \in DOMAIN t.signatures : t.signatures[i] # DefaultSignature

\* Transaction::try_partial_sign: every keypair must be a required signer;
\* a new blockhash clears the signatures; then each keypair signs its slot.
\* capable: whether the non-local signer answers the signing request.
try_partial_sign(t, keypairs, recent_blockhash, capable) ==
    LET required == SignedKeys(t.message)
        known(i) == \E j \in DOMAIN required : required[j] = keypairs[i].pubkey
        fresh == [t EXCEPT !.message.recent_blockhash = recent_blockhash,
                           !.signatures = [i \in DOMAIN t.signatures |-> DefaultSignature]]
        base == IF recent_blockhash # t.message.recent_blockhash THEN fresh ELSE t
        signedBy(k) == \E i \in DOMAIN keypairs : keypairs[i].pubkey = k
        keypairOf(k) == keypairs[CHOOSE i \in DOMAIN keypairs : keypairs[i].pubkey = k]
    IN  IF \E i \in DOMAIN keypairs : ~known(i)
        THEN [ok |-> FALSE, err |-> "KeypairPubkeyMismatch", tx |-> t]
        ELSE IF \E i \in DOMAIN keypairs : ~keypairs[i].local /\ ~capable
        THEN [ok |-> FALSE, err |-> "SignerError", tx |-> base]
        ELSE [ok |-> TRUE, err |-> "",
              tx |-> [base EXCEPT !.signatures =
                        [i \in DOMAIN base.signatures |->
                            IF signedBy(required[i])
                            THEN SignMessage(keypairOf(required[i]), base.message)
                            ELSE base.signatures[i]]]]

\* variant: partial signing accepted (try_partial_sign in place of try_sign)
try_sign_Partial(t, keypairs, recent_blockhash, capable) ==
    try_partial_sign(t, keypairs, recent_blockhash, capable)

\* Transaction::try_sign: a partial signature is an error
try_sign(t, keypairs, recent_blockhash, capable) ==
    LET r == try_partial_sign(t, keypairs, recent_blockhash, capable)
    IN  IF ~r.ok THEN r
        ELSE IF ~is_signed(r.tx)
        THEN [ok |-> FALSE, err |-> "NotEnoughSigners", tx |-> r.tx]
        ELSE r

-----------------------------------------------------------------------------
(* The invocations the model draws *)

\* the instructions handed to process_update_authorities: the four the CLI
\* builds (mint or freeze authority, update or revoke, the default signer as
\* owner and listed signer), and the same with other owner and signer lists
AuthorityInstructions ==
    { set_authority(spl_token_ID, mint, new_authority, authority_type, owner, signer_pubkeys) :
        mint \in Mints,
        new_authority \in {None} \cup {Some(w) : w \in Wallets},
        authority_type \in {"MintTokens", "FreezeAccount"},
        owner \in {SignerKey, Wallet(1)},
        signer_pubkeys \in {<<SignerKey>>, <<>>, <<Wallet(1)>>, <<SignerKey, Wallet(1)>>} }

Invocations ==
    [op : {"add_liquidity"}, program_id : ProgramIds, amount : Amounts,
     mint_of_token_sent : Mints]
    \cup [op : {"update_authorities"}, ix : AuthorityInstructions]
    \cup [op : {"create_token"}, mint : {Key("new_mint"), SignerKey}, decimals : {9},
          name : {"Token"}, symbol : {"TKN"}, uri : {"https://x"}]
    \cup [op : {"mint_to", "transfer_to"}, mint_pubkey : Mints,
          receiver_pubkey : Wallets \cup {SignerKey}, amount : {1, 1000000}]
    \cup [op : {"unfreeze"}, mint_pubkey : Mints, receiver_pubkey : Wallets \cup {SignerKey}]

\* the deriving programs an invocation consults
Derives(i) ==
    CASE i.op = "add_liquidity" -> {i.program_id, spl_associated_token_account_ID}
      [] i.op = "update_authorities" -> {}
      [] i.op = "create_token" -> {MPL_TOKEN_METADATA_ID}
      [] i.op \in {"mint_to", "transfer_to"} ->
            {MPL_TOKEN_METADATA_ID, spl_associated_token_account_ID}
      [] i.op = "unfreeze" -> {spl_associated_token_account_ID}
      [] i.op = "freeze" -> {spl_associated_token_account_ID}
      [] i.op = "update_metadata" -> {}

\* the synchronous head of each process_* function
BuildOf(i) ==
    CASE i.op = "add_liquidity" ->
            AddLiquidityBuild(SignerKey, i.program_id, i.amount, i.mint_of_token_sent)
      [] i.op = "update_authorities" -> UpdateAuthoritiesBuild(SignerKey, i.ix)
      [] i.op = "create_token" ->
            CreateTokenBuild(SignerKey, i.mint, i.decimals, i.name, i.symbol, i.uri)
      [] i.op = "mint_to" -> MintToBuild(SignerKey, i.mint_pubkey, i.receiver_pubkey, i.amount)
      [] i.op = "transfer_to" ->
            TransferToBuild(SignerKey, i.mint_pubkey, i.receiver_pubkey, i.amount)
      [] i.op = "unfreeze" -> UnfreezeBuild(SignerKey, i.mint_pubkey, i.receiver_pubkey)
      [] i.op = "freeze" -> FreezeBuild(SignerKey, i.mint_pubkey, i.receiver_pubkey)
      [] i.op = "update_metadata" -> UpdateMetadataBuild(SignerKey, i.builder)

-----------------------------------------------------------------------------
(* The node and the caller *)

Response(ok, value, cause) == [ok |-> ok, value |-> value, cause |-> cause]

BlockhashResponses ==
    {Response(TRUE, h, "") : h \in Blockhashes}
    \cup {Response(FALSE, UnsetBlockhash, "node unreachable")}

\* the node answers a submission with the transaction's first signature, or rejects
SendResponses(t) ==
    {Response(TRUE, t.signatures[1], "")}
    \cup {Response(FALSE, DefaultSignature, cause) :
            cause \in {"blockhash not found", "insufficient funds", "connection reset"}}

\* variant: the default configuration, preflight simulation left on
SendConfig_Default == [skip_preflight |-> FALSE]

\* RpcSendTransactionConfig { skip_preflight: true, ..default() }
SendConfig == [skip_preflight |-> TRUE]

NoResult == [returned |-> FALSE, ok |-> FALSE, value |-> DefaultSignature,
             stage |-> "", cause |-> ""]
Ok(signature) == [returned |-> TRUE, ok |-> TRUE, value |-> signature,
                  stage |-> "", cause |-> ""]
\* variant: the stage message alone, the underlying error not formatted in
Err_NoCause(stage, cause) == [returned |-> TRUE, ok |-> FALSE, value |-> DefaultSignature,
                              stage |-> stage, cause |-> ""]

\* format!("<stage>: {err}") boxed as the error
Err(stage, cause) == [returned |-> TRUE, ok |-> FALSE, value |-> DefaultSignature,
                      stage |-> stage, cause |-> cause]

\* main and the scheduler when a process_* function is called on its own
NoMain == [mpc |-> "none"]
NoSched == [cur |-> 0, tasks |-> <<>>]

-----------------------------------------------------------------------------
(* The state machine *)

Init ==
    /\ inv \in Invocations
    /\ curve \in [DerivingPrograms -> BumpSets]
    /\ \A p \in DerivingPrograms \ Derives(inv) : curve[p] = 0..255
    /\ pc = "Start"
    /\ tx = NoTx
    /\ calls = <<>>
    /\ blockhash = UnsetBlockhash
    /\ result = NoResult
    /\ stages = <<>>
    /\ main = NoMain
    /\ sched = NoSched

\* from entry to the first await: derive, build the instruction, assemble
Build ==
    /\ pc = "Start"
    /\ LET b == BuildOf(inv)
       IN  IF b.panicked
           THEN /\ pc' = "Panicked"
                /\ UNCHANGED <<tx, stages>>
           ELSE /\ tx' = Transaction_new_unsigned(Message_new(<<b.ix>>, SignerKey))
                /\ pc' = "Built"
                /\ stages' = Append(stages, "Built")
    /\ UNCHANGED <<inv, curve, calls, blockhash, result>>

\* variant: a failed fetch is swallowed and the default hash used
GetLatestBlockhash_IgnoreError ==
    /\ pc = "Built"
    /\ \E r \in BlockhashResponses :
        /\ calls' = Append(calls, [method |-> "getLatestBlockhash", response |-> r])
        /\ blockhash' = r.value
    /\ pc' = "BlockhashFetched"
    /\ stages' = Append(stages, "BlockhashFetched")
    /\ UNCHANGED <<inv, curve, tx, result>>

\* variant: a failed fetch is tried again
GetLatestBlockhash_Retry ==
    /\ pc = "Built"
    /\ \E r \in BlockhashResponses :
        /\ calls' = Append(calls, [method |-> "getLatestBlockhash", response |-> r])
        /\ IF r.ok
           THEN /\ blockhash' = r.value
                /\ pc' = "BlockhashFetched"
                /\ stages' = Append(stages, "BlockhashFetched")
           ELSE UNCHANGED <<blockhash, pc, stages>>
    /\ UNCHANGED <<inv, curve, tx, result>>

\* rpc_client.get_latest_blockhash().await.map_err(..)?
GetLatestBlockhash ==
    /\ pc = "Built"
    /\ \E r \in BlockhashResponses :
        /\ calls' = Append(calls, [method |-> "getLatestBlockhash", response |-> r])
        /\ IF r.ok
           THEN /\ blockhash' = r.value
                /\ pc' = "BlockhashFetched"
                /\ stages' = Append(stages, "BlockhashFetched")
                /\ UNCHANGED result
           ELSE /\ pc' = "Done"
                /\ result' = Err("error: unable to get latest blockhash", r.cause)
                /\ UNCHANGED <<blockhash, stages>>
    /\ UNCHANGED <<inv, curve, tx>>

\* variant: the result of try_sign is dropped
TrySign_IgnoreError ==
    /\ pc = "BlockhashFetched"
    /\ \E capable \in BOOLEAN :
        tx' = try_sign(tx, BuildOf(inv).keypairs, blockhash, capable).tx
    /\ pc' = "Signed"
    /\ stages' = Append(stages, "Signed")
    /\ UNCHANGED <<inv, curve, calls, blockhash, result>>

\* tx.try_sign(&[signers], blockhash).map_err(..)?
TrySign ==
    /\ pc = "BlockhashFetched"
    /\ \E capable \in BOOLEAN :
        LET r == try_sign(tx, BuildOf(inv).keypairs, blockhash, capable)
        IN  /\ tx' = r.tx
            /\ IF r.ok
               THEN /\ pc' = "Signed"
                    /\ stages' = Append(stages, "Signed")
                    /\ UNCHANGED result
               ELSE /\ pc' = "Done"
                    /\ result' = Err("error: failed to sign transaction", r.err)
                    /\ UNCHANGED stages
    /\ UNCHANGED <<inv, curve, calls, blockhash>>

\* variant: a rejected submission goes back for a new blockhash
SendTransaction_Retry ==
    /\ pc = "Signed"
    /\ \E r \in SendResponses(tx) :
        /\ calls' = Append(calls, [method |-> "sendTransaction", config |-> SendConfig,
                                   tx |-> tx, response |-> r])
        /\ IF r.ok
           THEN /\ result' = Ok(r.value)
                /\ pc' = "Done"
                /\ stages' = Append(stages, "Submitted")
           ELSE /\ pc' = "Built"
                /\ stages' = <<"Built">>
                /\ UNCHANGED result
    /\ UNCHANGED <<inv, curve, tx, blockhash>>

\* variant: send_and_confirm_transaction, which polls the signature status
SendTransaction_Confirm ==
    /\ pc = "Signed"
    /\ \E r \in SendResponses(tx) :
        /\ calls' =
            IF r.ok
            THEN calls \o << [method |-> "sendTransaction", config |-> SendConfig,
                              tx |-> tx, response |-> r],
                             [method |-> "getSignatureStatuses", response |-> r] >>
            ELSE Append(calls, [method |-> "sendTransaction", config |-> SendConfig,
                                tx |-> tx, response |-> r])
        /\ result' = IF r.ok THEN Ok(r.value) ELSE Err("error: send transaction", r.cause)
    /\ pc' = "Done"
    /\ stages' = Append(stages, "Submitted")
    /\ UNCHANGED <<inv, curve, tx, blockhash>>

\* rpc_client.send_transaction_with_config(&tx, config).await.map_err(..)?; Ok(signature)
SendTransaction ==
    /\ pc = "Signed"
    /\ \E r \in SendResponses(tx) :
        /\ calls' = Append(calls, [method |-> "sendTransaction", config |-> SendConfig,
                                   tx |-> tx, response |-> r])
        /\ result' = IF r.ok THEN Ok(r.value) ELSE Err("error: send transaction", r.cause)
    /\ pc' = "Done"
    /\ stages' = Append(stages, "Submitted")
    /\ UNCHANGED <<inv, curve, tx, blockhash>>

\* one step of the running process_* function
Step == Build \/ GetLatestBlockhash \/ TrySign \/ SendTransaction

Next == Step /\ UNCHANGED <<main, sched>>

Spec == Init /\ [][Next]_vars

-----------------------------------------------------------------------------
(* Concurrent invocations on one signer and one node client *)

\* two invocations in flight
Tasks == {1, 2}

\* the invocations run side by side
ConcInvocations ==
    {i \in Invocations : /\ i.op \in {"mint_to", "transfer_to"}
                         /\ i.receiver_pubkey = Wallet(1)
                         /\ i.amount = 1}

\* the locals of the running invocation, as kept across an await
Locals ==
    [inv |-> inv, pc |-> pc, tx |-> tx, blockhash |-> blockhash, result |-> result,
     stages |-> stages]

\* the locals of an invocation that has not run yet
Entry(i) ==
    [inv |-> i, pc |-> "Start", tx |-> NoTx, blockhash |-> UnsetBlockhash,
     result |-> NoResult, stages |-> <<>>]

\* an invocation that can be resumed
Runnable(frame) == frame.pc \notin {"Done", "Panicked"}

ConcInit ==
    /\ \E params \in [Tasks -> ConcInvocations] :
        /\ sched = [cur |-> 1, tasks |-> [t \in Tasks |-> Entry(params[t])],
                    params |-> params, owner |-> <<>>]
        /\ inv = params[1]
    /\ curve = [p \in DerivingPrograms |-> {253, 7}]
    /\ pc = "Start"
    /\ tx = NoTx
    /\ calls = <<>>
    /\ blockhash = UnsetBlockhash
    /\ result = NoResult
    /\ stages = <<>>
    /\ main = NoMain

\* the running invocation takes its next step; a call it makes is the node's
\* to answer and is noted as its own
Run ==
    /\ Step
    /\ sched' = [sched EXCEPT !.owner = IF Len(calls') > Len(calls)
                                        THEN Append(@, sched.cur) ELSE @]
    /\ UNCHANGED main

\* variant: the fetched blockhash sits in one cell all invocations use
Switch_SharedBlockhash ==
    /\ \E t \in Tasks \ {sched.cur} :
        /\ Runnable(sched.tasks[t])
        /\ sched' = [sched EXCEPT !.cur = t, !.tasks[sched.cur] = Locals]
        /\ inv' = sched.tasks[t].inv
        /\ pc' = sched.tasks[t].pc
        /\ tx' = sched.tasks[t].tx
        /\ result' = sched.tasks[t].result
        /\ stages' = sched.tasks[t].stages
    /\ UNCHANGED <<curve, calls, blockhash, main>>

\* at an await the running invocation is suspended with its locals and another
\* is resumed with its own
Switch ==
    /\ \E t \in Tasks \ {sched.cur} :
        /\ Runnable(sched.tasks[t])
        /\ sched' = [sched EXCEPT !.cur = t, !.tasks[sched.cur] = Locals]
        /\ inv' = sched.tasks[t].inv
        /\ pc' = sched.tasks[t].pc
        /\ tx' = sched.tasks[t].tx
        /\ blockhash' = sched.tasks[t].blockhash
        /\ result' = sched.tasks[t].result
        /\ stages' = sched.tasks[t].stages
    /\ UNCHANGED <<curve, calls, main>>

ConcNext == Run \/ Switch

ConcSpec == ConcInit /\ [][ConcNext]_vars

-----------------------------------------------------------------------------
(* main: argument and prompt texts, and what parsing makes of them *)

\* the base58 text of an address, and a text that is no address
Pubkey_to_string(pubkey) == <<"b58">> \o pubkey
NotAnAddress == <<"b58", "?">>

\* Pubkey::from_str
Pubkey_from_str(s) ==
    IF Len(s) = 4 /\ s[1] = "b58" THEN Some(SubSeq(s, 2, 4)) ELSE None

DecimalDigits == <<"0", "1", "2", "3", "4", "5", "6", "7", "8", "9">>

DigitValue(c) == (CHOOSE i \in DOMAIN DecimalDigits : DecimalDigits[i] = c) - 1

RECURSIVE Decimal(_)
Decimal(s) ==
    IF s = <<>> THEN 0
    ELSE 10 * Decimal(SubSeq(s, 1, Len(s) - 1)) + DigitValue(s[Len(s)])

\* str::parse::<u16>: a non-empty run of decimal digits whose value fits 16 bits
parse_u16(s) ==
    IF s = <<>> \/ (\E i \in DOMAIN s : \A j \in DOMAIN DecimalDigits : DecimalDigits[j] # s[i])
    THEN None
    ELSE IF Decimal(s) >= 2^16 THEN None ELSE Some(Decimal(s))

\* the fee texts a user may type: nothing, 500, 65535, 65536, and a word
FeeTexts == { <<>>, <<"5", "0", "0">>, <<"6", "5", "5", "3", "5">>,
              <<"6", "5", "5", "3", "6">>, <<"f", "e", "e">> }

\* the metadata records an account may hold
Metadatas ==
    { [name |-> "Token", symbol |-> "TKN", uri |-> "https://x",
       seller_fee_basis_points |-> 0, creators |-> None, collection |-> None,
       uses |-> None, is_mutable |-> TRUE],
      [name |-> "Old", symbol |-> "OLD", uri |-> "https://old",
       seller_fee_basis_points |-> 250, creators |-> Some(<<Wallet(1)>>),
       collection |-> Some(Key("collection")), uses |-> Some("Burn"),
       is_mutable |-> FALSE] }

\* account data: the leading key byte and the record behind it
AccountData(key, body) == [key |-> key, body |-> body]
NoAccountData == AccountData("Uninitialized", CHOOSE m \in Metadatas : m.creators = None)

\* Metadata::safe_deserialize: refuses data whose key byte is not MetadataV1
Metadata_safe_deserialize(data) ==
    IF data.key = "MetadataV1" THEN Some(data.body) ELSE None

\* what the node may answer to get_account_data
AccountResponses ==
    {Response(TRUE, AccountData("MetadataV1", m), "") : m \in Metadatas}
    \cup {Response(TRUE, NoAccountData, "")}
    \cup {Response(FALSE, NoAccountData, "AccountNotFound")}

\* DataV2 { name: metadata.name, .. }
DataV2(metadata) ==
    [name |-> metadata.name, symbol |-> metadata.symbol, uri |-> metadata.uri,
     seller_fee_basis_points |-> metadata.seller_fee_basis_points,
     creators |-> metadata.creators, collection |-> metadata.collection,
     uses |-> metadata.uses]

\* the answers a user may give to the updateMetadata prompts; an answer to a
\* prompt that is not shown is fixed
MetadataAnswers ==
    { a \in [update_data : BOOLEAN, name : {"", "New"}, symbol : {"", "NEW"},
             uri : {"", "https://new"}, seller_fee_basis_points : FeeTexts,
             is_mutable : BOOLEAN, update_authority : BOOLEAN,
             new_authority : {Pubkey_to_string(w) : w \in Wallets} \cup {NotAnAddress},
             proceed : BOOLEAN] :
        /\ ~a.update_data =>
             /\ a.name = "" /\ a.symbol = "" /\ a.uri = ""
             /\ a.seller_fee_basis_points = <<>> /\ ~a.is_mutable
        /\ ~a.update_authority => a.new_authority = NotAnAddress }

\* variant: every field typed at a prompt replaces the old one, empty or not
MetadataDialog_Overwrite(metadata, metadata_pubkey, signer, a) ==
    LET data0 == DataV2(metadata)
        data1 == IF a.update_data
                 THEN [data0 EXCEPT !.name = a.name, !.symbol = a.symbol, !.uri = a.uri]
                 ELSE data0
        builder == [UpdateMetadataAccountV2Builder_new EXCEPT
                        !.metadata = Some(metadata_pubkey),
                        !.update_authority = Some(signer),
                        !.data = IF a.update_data THEN Some(data1) ELSE None,
                        !.is_mutable = IF a.update_data THEN Some(a.is_mutable) ELSE None]
    IN  [panicked |-> FALSE, data |-> data1, builder |-> builder,
         asked |-> <<"Do you want to update token metadata?", "Proceed with update?">>]

\* updateMetadata, from the builder's creation to the last prompt: the prompts
\* shown, the record and the builder they leave, and whether an unwrap panicked
MetadataDialog(metadata, metadata_pubkey, signer, a) ==
    LET data0 == DataV2(metadata)
        builder0 == [UpdateMetadataAccountV2Builder_new EXCEPT
                        !.metadata = Some(metadata_pubkey),
                        !.update_authority = Some(signer)]
        fee == parse_u16(a.seller_fee_basis_points)
        fee_panics == a.update_data /\ a.seller_fee_basis_points # <<>> /\ fee = None
        data1 == IF a.update_data /\ ~fee_panics
                 THEN [data0 EXCEPT
                        !.name = IF a.name # "" THEN a.name ELSE @,
                        !.symbol = IF a.symbol # "" THEN a.symbol ELSE @,
                        !.uri = IF a.uri # "" THEN a.uri ELSE @,
                        !.seller_fee_basis_points =
                            IF a.seller_fee_basis_points # <<>> THEN fee[2] ELSE @]
                 ELSE data0
        builder1 == IF a.update_data
                    THEN [builder0 EXCEPT !.data = Some(data1),
                                          !.is_mutable = Some(a.is_mutable)]
                    ELSE builder0
        new_authority == Pubkey_from_str(a.new_authority)
        authority_panics == a.update_authority /\ new_authority = None
        builder2 == IF a.update_authority
                    THEN [builder1 EXCEPT !.new_update_authority = new_authority]
                    ELSE builder1
        data_prompts == IF a.update_data
                        THEN <<"Name", "Symbol", "URI", "Seller fee basis points">>
                        ELSE <<>>
    IN  IF fee_panics
        THEN [panicked |-> TRUE, data |-> data0, builder |-> builder0,
              asked |-> <<"Do you want to update token metadata?">> \o data_prompts]
        ELSE IF authority_panics
        THEN [panicked |-> TRUE, data |-> data1, builder |-> builder1,
              asked |-> <<"Do you want to update token metadata?">> \o data_prompts
                        \o (IF a.update_data THEN <<"Is mutable?">> ELSE <<>>)
                        \o <<"Do you want to update the update authority?",
                             "Update authority address">>]
        ELSE [panicked |-> FALSE, data |-> data1, builder |-> builder2,
              asked |-> <<"Do you want to update token metadata?">> \o data_prompts
                        \o (IF a.update_data THEN <<"Is mutable?">> ELSE <<>>)
                        \o <<"Do you want to update the update authority?">>
                        \o (IF a.update_authority THEN <<"Update authority address">>
                            ELSE <<>>)
                        \o <<"Proceed with update?">>]

\* the answers a user may give to the updateAuthorities prompts
AuthorityOptions == <<"Mint authority", "Freeze authority", "Owner authority">>
ActionOptions == <<"update", "revoke">>

AuthorityAnswers ==
    { a \in [choice : 0..2, action : 0..1,
             new_authority : {Pubkey_to_string(w) : w \in Wallets} \cup {NotAnAddress}] :
        /\ a.choice = 2 => a.action = 0
        /\ (a.choice = 2 \/ a.action = 1) => a.new_authority = NotAnAddress }

\* variant: the two authority types exchanged
AuthorityDialog_Swapped(mint_pubkey, signer, a) ==
    [panicked |-> FALSE,
     ix |-> Some(set_authority(spl_token_ID, mint_pubkey,
                               IF a.action = 0 THEN Pubkey_from_str(a.new_authority)
                               ELSE None,
                               IF a.choice = 0 THEN "FreezeAccount" ELSE "MintTokens",
                               signer, <<signer>>)),
     asked |-> <<"Choose authority to update", "Choose action">>]

\* updateAuthorities, from the first prompt to the instruction handed on
AuthorityDialog(mint_pubkey, signer, a) ==
    LET new_authority == Pubkey_from_str(a.new_authority)
        authority_type == IF a.choice = 0 THEN "MintTokens" ELSE "FreezeAccount"
    IN  IF a.choice = 2
        THEN [panicked |-> TRUE, ix |-> None,
              asked |-> <<"Choose authority to update">>]
        ELSE IF a.action = 0 /\ new_authority = None
        THEN [panicked |-> TRUE, ix |-> None,
              asked |-> <<"Choose authority to update", "Choose action",
                          "New authority address">>]
        ELSE [panicked |-> FALSE,
              ix |-> Some(set_authority(spl_token_ID, mint_pubkey,
                                        IF a.action = 0 THEN new_authority ELSE None,
                                        authority_type, signer, <<signer>>)),
              asked |-> <<"Choose authority to update", "Choose action">>
                        \o (IF a.action = 0 THEN <<"New authority address">> ELSE <<>>)]

-----------------------------------------------------------------------------
(* main: from the command line to the exit code *)

Commands == {"createTokenWithMetadata", "mintTo", "transferTo", "freeze", "unfreeze",
             "updateMetadata", "updateAuthorities", "addToLiquidity"}

\* the subcommands that parse their arguments and call one process_* function
DirectCommands == Commands \ {"updateMetadata", "updateAuthorities"}

\* the calls a direct subcommand may make, by its parsed arguments
ArgumentsOf(command) ==
    CASE command = "createTokenWithMetadata" -> {i \in Invocations : i.op = "create_token"}
      [] command = "mintTo" -> {i \in Invocations : i.op = "mint_to"}
      [] command = "transferTo" -> {i \in Invocations : i.op = "transfer_to"}
      [] command = "unfreeze" -> {i \in Invocations : i.op = "unfreeze"}
      [] command = "freeze" ->
            [op : {"freeze"}, mint_pubkey : Mints, receiver_pubkey : Wallets \cup {SignerKey}]
      [] command = "addToLiquidity" -> {i \in Invocations : i.op = "add_liquidity"}

\* the deriving programs a subcommand consults, in main or in its process_* function
CommandDerives(command) ==
    CASE command \in DirectCommands -> UNION {Derives(i) : i \in ArgumentsOf(command)}
      [] command = "updateMetadata" -> {MPL_TOKEN_METADATA_ID}
      [] command = "updateAuthorities" -> {}

\* no process_* function called yet
NoInv == [op |-> "none"]

\* std::process::exit(code), and the exit of a panicking main thread
Exit(m, code) == [m EXCEPT !.mpc = "Exited", !.exit_code = code]
Panic(m) == [m EXCEPT !.mpc = "Exited", !.exit_code = 101, !.panicked = TRUE]

MainInit ==
    /\ \E command \in Commands :
        main = [command |-> command, mpc |-> "Start", exit_code |-> 0,
                panicked |-> FALSE, signer |-> "unloaded", mint_pubkey |-> None,
                metadata_pubkey |-> None, metadata |-> None, data |-> None,
                builder |-> None, answers |-> None, asked |-> <<>>]
    /\ curve \in [DerivingPrograms -> BumpSets]
    /\ \A p \in DerivingPrograms \ CommandDerives(main.command) : curve[p] = 0..255
    /\ inv = NoInv
    /\ pc = "Idle"
    /\ tx = NoTx
    /\ calls = <<>>
    /\ blockhash = UnsetBlockhash
    /\ result = NoResult
    /\ stages = <<>>
    /\ sched = NoSched

\* default_signer.signer_from_path(..).unwrap_or_else(exit 1)
LoadSigner ==
    /\ main.mpc = "Start"
    /\ \E loaded \in BOOLEAN :
        main' = IF loaded
                THEN [main EXCEPT !.mpc = "Dispatch", !.signer = "loaded"]
                ELSE [Exit(main, 1) EXCEPT !.signer = "failed"]
    /\ UNCHANGED <<inv, curve, pc, tx, calls, blockhash, result, stages, sched>>

\* a direct subcommand: unwrap the parsed arguments, call its process_* function
Call ==
    /\ main.mpc = "Dispatch"
    /\ main.command \in DirectCommands
    /\ \E parsed \in BOOLEAN :
        IF parsed
        THEN /\ inv' \in ArgumentsOf(main.command)
             /\ pc' = "Start"
             /\ main' = [main EXCEPT !.mpc = "Awaiting"]
        ELSE /\ main' = Panic(main)
             /\ UNCHANGED <<inv, pc>>
    /\ UNCHANGED <<curve, tx, calls, blockhash, result, stages, sched>>

\* updateMetadata up to its first await: the mint argument, the metadata address
FindMetadata ==
    /\ main.mpc = "Dispatch"
    /\ main.command = "updateMetadata"
    /\ \E parsed \in BOOLEAN, mint_pubkey \in Mints :
        LET pda == Metadata_find_pda(mint_pubkey)
        IN  main' = IF ~parsed \/ pda.panicked
                    THEN Panic(main)
                    ELSE [main EXCEPT !.mpc = "ReadingMetadata",
                                      !.mint_pubkey = mint_pubkey,
                                      !.metadata_pubkey = pda.address]
    /\ UNCHANGED <<inv, curve, pc, tx, calls, blockhash, result, stages, sched>>

\* variant: a failed read is passed over and an empty record edited
GetAccountData_IgnoreError ==
    /\ main.mpc = "ReadingMetadata"
    /\ \E r \in AccountResponses :
        /\ calls' = Append(calls, [method |-> "getAccountInfo",
                                   pubkey |-> main.metadata_pubkey, response |-> r])
        /\ main' = [main EXCEPT !.mpc = "Configuring", !.metadata = r.value.body]
    /\ UNCHANGED <<inv, curve, pc, tx, blockhash, result, stages, sched>>

\* rpc_client.get_account_data(&metadata_pubkey).await.unwrap_or_else(exit 1),
\* then Metadata::safe_deserialize(..).unwrap()
GetAccountData ==
    /\ main.mpc = "ReadingMetadata"
    /\ \E r \in AccountResponses :
        /\ calls' = Append(calls, [method |-> "getAccountInfo",
                                   pubkey |-> main.metadata_pubkey, response |-> r])
        /\ main' = IF ~r.ok
                   THEN Exit(main, 1)
                   ELSE IF Metadata_safe_deserialize(r.value) = None
                   THEN Panic(main)
                   ELSE [main EXCEPT !.mpc = "Configuring",
                                     !.metadata = Metadata_safe_deserialize(r.value)[2]]
    /\ UNCHANGED <<inv, curve, pc, tx, blockhash, result, stages, sched>>

\* variant: the last prompt's answer is not consulted
ConfigureUpdate_AlwaysProceed ==
    /\ main.mpc = "Configuring"
    /\ \E a \in MetadataAnswers :
        LET d == MetadataDialog(main.metadata, main.metadata_pubkey, SignerKey, a)
            m == [main EXCEPT !.answers = a, !.asked = d.asked, !.data = d.data,
                              !.builder = d.builder]
        IN  /\ d.panicked => ~a.proceed
            /\ IF d.panicked
               THEN /\ main' = Panic(m)
                    /\ UNCHANGED <<inv, pc>>
               ELSE /\ main' = [m EXCEPT !.mpc = "Awaiting"]
                    /\ inv' = [op |-> "update_metadata", builder |-> d.builder]
                    /\ pc' = "Start"
    /\ UNCHANGED <<curve, tx, calls, blockhash, result, stages, sched>>

\* updateMetadata between its two awaits: the prompts, then the call of
\* process_update_metadata if the last prompt is confirmed
ConfigureUpdate ==
    /\ main.mpc = "Configuring"
    /\ \E a \in MetadataAnswers :
        LET d == MetadataDialog(main.metadata, main.metadata_pubkey, SignerKey, a)
            m == [main EXCEPT !.answers = a, !.asked = d.asked, !.data = d.data,
                              !.builder = d.builder]
        IN  /\ d.panicked => ~a.proceed
            /\ IF d.panicked
               THEN /\ main' = Panic(m)
                    /\ UNCHANGED <<inv, pc>>
               ELSE IF ~a.proceed
               THEN /\ main' = Exit(m, 0)
                    /\ UNCHANGED <<inv, pc>>
               ELSE /\ main' = [m EXCEPT !.mpc = "Awaiting"]
                    /\ inv' = [op |-> "update_metadata", builder |-> d.builder]
                    /\ pc' = "Start"
    /\ UNCHANGED <<curve, tx, calls, blockhash, result, stages, sched>>

\* updateAuthorities up to its await: the mint argument, the prompts, the call
\* of process_update_authorities
ChooseAuthority ==
    /\ main.mpc = "Dispatch"
    /\ main.command = "updateAuthorities"
    /\ \E parsed \in BOOLEAN, mint_pubkey \in Mints, a \in AuthorityAnswers :
        LET d == AuthorityDialog(mint_pubkey, SignerKey, a)
            m == [main EXCEPT !.mint_pubkey = mint_pubkey, !.answers = a,
                              !.asked = d.asked]
        IN  IF ~parsed
            THEN /\ a = CHOOSE first \in AuthorityAnswers : first.choice = 2
                 /\ main' = Panic(main)
                 /\ UNCHANGED <<inv, pc>>
            ELSE IF d.panicked
            THEN /\ main' = Panic(m)
                 /\ UNCHANGED <<inv, pc>>
            ELSE /\ main' = [m EXCEPT !.mpc = "Awaiting"]
                 /\ inv' = [op |-> "update_authorities", ix |-> d.ix[2]]
                 /\ pc' = "Start"
    /\ UNCHANGED <<curve, tx, calls, blockhash, result, stages, sched>>

\* variant: the error of the process_* function is printed and main goes on
Return_Swallow ==
    /\ main.mpc = "Awaiting"
    /\ pc = "Done"
    /\ main' = Exit(main, 0)
    /\ UNCHANGED <<inv, curve, pc, tx, calls, blockhash, result, stages, sched>>

\* .await.unwrap_or_else(exit 1), println!("Signature: ..") and Ok(())
Return ==
    /\ main.mpc = "Awaiting"
    /\ pc = "Done"
    /\ main' = IF result.ok THEN Exit(main, 0) ELSE Exit(main, 1)
    /\ UNCHANGED <<inv, curve, pc, tx, calls, blockhash, result, stages, sched>>

\* a panic inside the process_* function unwinds through main
Unwind ==
    /\ main.mpc = "Awaiting"
    /\ pc = "Panicked"
    /\ main' = Panic(main)
    /\ UNCHANGED <<inv, curve, pc, tx, calls, blockhash, result, stages, sched>>

MainNext ==
    \/ LoadSigner
    \/ Call
    \/ FindMetadata
    \/ GetAccountData
    \/ ConfigureUpdate
    \/ ChooseAuthority
    \/ Next
    \/ Return
    \/ Unwind

MainSpec == MainInit /\ [][MainNext]_vars

-----------------------------------------------------------------------------
(* Vocabulary of the properties *)

Pipeline == <<"Built", "BlockhashFetched", "Signed", "Submitted">>
FetchStage == "error: unable to get latest blockhash"
SignStage == "error: failed to sign transaction"
SendStage == "error: send transaction"

FetchCalls == {i \in DOMAIN calls : calls[i].method = "getLatestBlockhash"}
SendCalls == {i \in DOMAIN calls : calls[i].method = "sendTransaction"}

\* the signing step of this invocation has run
SignAttempted == pc = "Signed" \/ (pc = "Done" /\ result.stage # FetchStage)

\* every required signer's slot holds that signer's signature over this message
FullySigned(t) ==
    /\ Len(t.signatures) = t.message.header.num_required_signatures
    /\ \A i \in 1..t.message.header.num_required_signatures :
            t.signatures[i] = [signer |-> t.message.account_keys[i],
                               blockhash |-> t.message.recent_blockhash]

-----------------------------------------------------------------------------
(* C1: in every process_* operation the stages occur in the order built,   *)
(* blockhash fetched, signed, submitted; a submit call is made only after  *)
(* the blockhash fetch and the signing of this invocation both succeeded.  *)
C1_StepOrder ==
    /\ Len(stages) <= Len(Pipeline)
    /\ stages = SubSeq(Pipeline, 1, Len(stages))
    /\ \A i \in SendCalls :
        /\ i = 2
        /\ calls[1].method = "getLatestBlockhash"
        /\ calls[1].response.ok
        /\ stages = Pipeline
        /\ is_signed(calls[i].tx)
        /\ calls[i].tx.message.recent_blockhash = calls[1].response.value

C1_Witness == pc = "Done" /\ result.ok /\ SendCalls # {} /\ inv.op = "unfreeze"

(* C2: when signing fails the operation returns an error and nothing is    *)
(* submitted; every submitted transaction carries, for every account its   *)
(* message flags as signer, that account's signature.                      *)
C2_NoPartialSubmission ==
    /\ \A i \in SendCalls : FullySigned(calls[i].tx)
    /\ (pc = "Done" /\ result.stage = SignStage) =>
            (result.returned /\ ~result.ok /\ SendCalls = {})
    /\ (SignAttempted /\ ~is_signed(tx)) =>
            (pc = "Done" /\ result.stage = SignStage /\ SendCalls = {})

\* signing failed with one of two required signatures already in place
C2_Witness ==
    /\ pc = "Done"
    /\ result.stage = SignStage
    /\ result.cause = "NotEnoughSigners"
    /\ \E i \in DOMAIN tx.signatures : tx.signatures[i] # DefaultSignature

(* C3: when the blockhash fetch fails the operation ends with an error:    *)
(* the transaction is neither signed nor submitted and the fetch is not    *)
(* attempted again.                                                        *)
C3_FetchFailureIsFinal ==
    (FetchCalls # {} /\ ~calls[1].response.ok) =>
        /\ pc = "Done"
        /\ result = Err(FetchStage, calls[1].response.cause)
        /\ Len(calls) = 1
        /\ tx.message.recent_blockhash = UnsetBlockhash
        /\ \A i \in DOMAIN tx.signatures : tx.signatures[i] = DefaultSignature
        /\ stages = <<"Built">>
        /\ ~ENABLED Next

C3_Witness == pc = "Done" /\ result.stage = FetchStage /\ inv.op = "add_liquidity"

(* C4: no retry: within one invocation the blockhash is asked for at most  *)
(* once and a transaction is submitted at most once, whatever the outcome; *)
(* any failure is terminal for the invocation.                             *)
C4_NoRetry ==
    /\ Cardinality(FetchCalls) <= 1
    /\ Cardinality(SendCalls) <= 1
    /\ result.returned => (pc = "Done" /\ ~ENABLED Next)

\* the node rejected the submission for a stale blockhash
C4_Witness ==
    /\ pc = "Done"
    /\ result = Err(SendStage, "blockhash not found")
    /\ Cardinality(FetchCalls) = 1
    /\ Cardinality(SendCalls) = 1

(* C5: every submission is sent with skip-preflight set, and the only node *)
(* calls of an operation are one blockhash fetch and one submission.       *)
C5_SkipPreflightOnly ==
    /\ \A i \in SendCalls : calls[i].config.skip_preflight = TRUE
    /\ \A i \in DOMAIN calls : calls[i].method \in {"getLatestBlockhash", "sendTransaction"}
    /\ Len(calls) <= 2
    /\ \A i \in DOMAIN calls : (i = 1) = (calls[i].method = "getLatestBlockhash")

C5_Witness == Len(calls) = 2 /\ calls[2].method = "sendTransaction" /\ inv.op = "mint_to"

(* C6: once the submit call returns successfully the operation returns the *)
(* transaction identifier in the same step: no further node call or other  *)
(* step lies between the node's acceptance and Ok(identifier).             *)
C6_ImmediateReturn ==
    [][ \A i \in (Len(calls) + 1)..Len(calls') :
          (calls'[i].method = "sendTransaction" /\ calls'[i].response.ok)
          => /\ i = Len(calls')
             /\ Len(calls') = Len(calls) + 1
             /\ pc' = "Done"
             /\ result' = Ok(calls'[i].response.value)
             /\ result'.value = tx.signatures[1] ]_vars

C6_Witness ==
    /\ pc = "Done" /\ result.ok /\ inv.op = "transfer_to"
    /\ calls[Len(calls)].method = "sendTransaction"
    /\ result.value = calls[Len(calls)].response.value

\* the caller's instruction flags as signer an address other than the signer
ForeignSigner ==
    \E j \in DOMAIN inv.ix.accounts :
        inv.ix.accounts[j].is_signer /\ inv.ix.accounts[j].pubkey # SignerKey

(* C7 as stated: in process_update_authorities an instruction that flags   *)
(* as signer an address other than the supplied signer makes signing fail  *)
(* and nothing is submitted; an instruction whose flagged signers are all  *)
(* the supplied signer is signed successfully.                             *)
C7_AsStated ==
    (inv.op = "update_authorities" /\ SignAttempted) =>
        IF ForeignSigner
        THEN pc = "Done" /\ result.stage = SignStage /\ SendCalls = {}
        ELSE result.stage # SignStage /\ is_signed(tx)

(* C7 amended: with a foreign signer flagged, signing fails and nothing is *)
(* submitted; with only the supplied signer flagged, signing never fails   *)
(* for lack of a signer: it succeeds unless the signer itself fails to     *)
(* produce its signature, and then nothing is submitted either.            *)
C7_SingleSigner ==
    (inv.op = "update_authorities" /\ SignAttempted) =>
        IF ForeignSigner
        THEN /\ pc = "Done"
             /\ result = Err(SignStage, result.cause)
             /\ result.cause \in {"NotEnoughSigners", "SignerError"}
             /\ SendCalls = {}
        ELSE \/ result.stage # SignStage /\ FullySigned(tx)
             \/ /\ pc = "Done"
                /\ result = Err(SignStage, "SignerError")
                /\ SendCalls = {}

\* the signer and a second wallet are both listed as signers; signing is refused
C7_Witness ==
    /\ inv.op = "update_authorities"
    /\ ForeignSigner
    /\ \E j \in DOMAIN inv.ix.accounts :
            inv.ix.accounts[j].is_signer /\ inv.ix.accounts[j].pubkey = SignerKey
    /\ pc = "Done"
    /\ result = Err(SignStage, "NotEnoughSigners")

(* C8: in process_create_token the accounts the message flags as signers   *)
(* are exactly the payer and the new mint, both are handed to the signing  *)
(* step, and signing never fails for lack of a signer.                     *)
C8_CreateTokenSigners ==
    (inv.op = "create_token" /\ pc \notin {"Start", "Panicked"}) =>
        LET required == SignedKeys(tx.message)
            keypairs == BuildOf(inv).keypairs
        IN  /\ {required[i] : i \in DOMAIN required} = {SignerKey, inv.mint}
            /\ required[1] = SignerKey
            /\ {keypairs[i].pubkey : i \in DOMAIN keypairs} = {SignerKey, inv.mint}
            /\ result.stage = SignStage => result.cause = "SignerError"
            /\ (SignAttempted /\ result.stage # SignStage) => FullySigned(tx)

C8_Witness ==
    /\ inv.op = "create_token"
    /\ inv.mint # SignerKey
    /\ pc = "Signed"
    /\ Len(tx.signatures) = 2
    /\ FullySigned(tx)

RECURSIVE ShiftRight(_, _)
\* n with its k low bytes dropped
ShiftRight(n, k) == IF k = 0 THEN n ELSE ShiftRight(n \div 256, k - 1)

(* C9: the instruction built by process_add_liquidity has as payload the   *)
(* 8-byte discriminator of ("global", "add_liquidity") followed by the     *)
(* 8-byte little-endian amount, nothing else, and exactly 8 accounts:      *)
(* bridge state PDA, vault associated address, depositor, mint, depositor  *)
(* associated address, system, token and associated-token programs.        *)
C9_AddLiquidityInstruction ==
    (inv.op = "add_liquidity" /\ pc \notin {"Start", "Panicked"}) =>
        LET cix == tx.message.instructions[1]
            keyAt(j) == tx.message.account_keys[cix.accounts[j]]
            bridge == Pda(inv.program_id, <<Bytes("bridge_state")>>,
                          TryBump(curve[inv.program_id]))
            ataBump == TryBump(curve[spl_associated_token_account_ID])
            ata(owner) == Pda(spl_associated_token_account_ID,
                              <<owner, spl_token_ID, inv.mint_of_token_sent>>, ataBump)
        IN  /\ Len(tx.message.instructions) = 1
            /\ tx.message.account_keys[cix.program_id_index] = inv.program_id
            /\ Len(cix.data) = 16
            /\ SubSeq(cix.data, 1, 8) = get_function_hash("global", "add_liquidity")
            /\ \A k \in 1..8 : cix.data[8 + k] = ShiftRight(inv.amount, k - 1) % 256
            /\ Len(cix.accounts) = 8
            /\ keyAt(1) = bridge
            /\ keyAt(2) = ata(bridge)
            /\ keyAt(3) = SignerKey
            /\ keyAt(4) = inv.mint_of_token_sent
            /\ keyAt(5) = ata(SignerKey)
            /\ keyAt(6) = system_program_ID
            /\ keyAt(7) = spl_token_ID
            /\ keyAt(8) = spl_associated_token_account_ID

C9_Witness ==
    /\ inv.op = "add_liquidity"
    /\ inv.amount = 1000000
    /\ pc = "Built"
    /\ tx.message.instructions[1].data =
        <<181, 157, 89, 67, 143, 182, 52, 72, 64, 66, 15, 0, 0, 0, 0, 0>>

(* C10: when every bump candidate of the bridge-state derivation is        *)
(* on-curve, process_add_liquidity returns a NoValidBumpFound error to its *)
(* caller; it does not panic.                                              *)
C10_DerivationErrorReturned ==
    (inv.op = "add_liquidity" /\ curve[inv.program_id] = {} /\ pc # "Start") =>
        /\ pc = "Done"
        /\ result.returned
        /\ ~result.ok
        /\ result.cause = "NoValidBumpFound"

-----------------------------------------------------------------------------
(* C12: every failure of a process_* operation is returned as one error    *)
(* value that names the failing stage and carries the underlying cause     *)
(* (for a submission, the node's rejection reason); the three stages give  *)
(* distinguishable errors.                                                 *)
C12_ErrorNamesStageAndCause ==
    /\ Cardinality({FetchStage, SignStage, SendStage}) = 3
    /\ (result.returned /\ ~result.ok) =>
        /\ pc = "Done"
        /\ result.cause # ""
        /\ \/ /\ result.stage = FetchStage
              /\ Len(calls) = 1 /\ ~calls[1].response.ok
              /\ result.cause = calls[1].response.cause
           \/ /\ result.stage = SignStage
              /\ Len(calls) = 1 /\ calls[1].response.ok
              /\ result.cause \in {"KeypairPubkeyMismatch", "NotEnoughSigners", "SignerError"}
              /\ (result.cause = "NotEnoughSigners") =
                    (\E i \in DOMAIN tx.signatures : tx.signatures[i] # DefaultSignature)
           \/ /\ result.stage = SendStage
              /\ Len(calls) = 2 /\ calls[1].response.ok /\ ~calls[2].response.ok
              /\ result.cause = calls[2].response.cause
    /\ (pc = "Done" /\ ~result.ok) => result.returned

C12_Witness ==
    /\ inv.op = "update_authorities"
    /\ pc = "Done"
    /\ result = Err(SendStage, "insufficient funds")
    /\ calls[2].response.cause = "insufficient funds"

\* the composite table's flags of its i-th key, read off the header
TableSigner(m, i) == i <= m.header.num_required_signatures
TableWritable(m, i) ==
    \/ i <= m.header.num_required_signatures - m.header.num_readonly_signed_accounts
    \/ /\ i > m.header.num_required_signatures
       /\ i <= Len(m.account_keys) - m.header.num_readonly_unsigned_accounts

(* C15: the message of every process_* operation has the supplied signer   *)
(* as fee payer, first in the account table, signer and writable, also     *)
(* where the instruction names that address read-only; each address's      *)
(* flags are the OR of the flags of its references plus the fee-payer      *)
(* role; the blockhash stays unset until the signing step.                 *)
C15_FeePayerFirst ==
    (pc \notin {"Start", "Panicked"}) =>
        LET m == tx.message
            refs == BuildOf(inv).ix.accounts
        IN  /\ m.account_keys[1] = SignerKey
            /\ TableSigner(m, 1)
            /\ TableWritable(m, 1)
            /\ \A i \in DOMAIN m.account_keys :
                /\ TableSigner(m, i) =
                    (\/ m.account_keys[i] = SignerKey
                     \/ \E j \in DOMAIN refs :
                            refs[j].pubkey = m.account_keys[i] /\ refs[j].is_signer)
                /\ TableWritable(m, i) =
                    (\/ m.account_keys[i] = SignerKey
                     \/ \E j \in DOMAIN refs :
                            refs[j].pubkey = m.account_keys[i] /\ refs[j].is_writable)
            /\ (pc \in {"Built", "BlockhashFetched"} \/ result.stage = FetchStage)
                   => m.recent_blockhash = UnsetBlockhash
            /\ pc = "Signed" => m.recent_blockhash = blockhash /\ blockhash \in Blockhashes

\* add_liquidity names the depositor read-only; the blockhash is fetched, not yet set
C15_Witness ==
    /\ inv.op = "add_liquidity"
    /\ pc = "BlockhashFetched"
    /\ blockhash \in Blockhashes
    /\ tx.message.recent_blockhash = UnsetBlockhash
    /\ tx.message.account_keys[1] = SignerKey
    /\ \A j \in DOMAIN BuildOf(inv).ix.accounts :
            BuildOf(inv).ix.accounts[j].pubkey = SignerKey
                => ~BuildOf(inv).ix.accounts[j].is_writable

(* C16: the account table of every assembled message holds each distinct   *)
(* address exactly once, also when the instruction names an address        *)
(* several times (the signer as owner and listed signer in unfreeze, as    *)
(* authority and payer in mint_to and transfer_to, and as receiver).       *)
C16_EachAddressOnce ==
    (pc \notin {"Start", "Panicked"}) =>
        LET keys == tx.message.account_keys
            ix == BuildOf(inv).ix
        IN  /\ \A i, j \in DOMAIN keys : keys[i] = keys[j] => i = j
            /\ {keys[i] : i \in DOMAIN keys} =
                   {SignerKey, ix.program_id}
                   \cup {ix.accounts[j].pubkey : j \in DOMAIN ix.accounts}

\* transfer to oneself: the signer is owner, destination owner, authority and payer
C16_Witness ==
    /\ inv.op = "transfer_to"
    /\ inv.receiver_pubkey = SignerKey
    /\ pc = "Built"
    /\ Cardinality({j \in DOMAIN BuildOf(inv).ix.accounts :
                        BuildOf(inv).ix.accounts[j].pubkey = SignerKey}) = 4
    /\ Cardinality({i \in DOMAIN tx.message.account_keys :
                        tx.message.account_keys[i] = SignerKey}) = 1


-----------------------------------------------------------------------------
(* Claims about main *)

\* the first call to the node was the metadata read, and it failed
MetadataReadFailed ==
    /\ calls # <<>>
    /\ calls[1].method = "getAccountInfo"
    /\ ~calls[1].response.ok

\* the final prompt of updateMetadata was shown and declined
UpdateDeclined ==
    /\ main.command = "updateMetadata"
    /\ main.asked # <<>>
    /\ main.asked[Len(main.asked)] = "Proceed with update?"
    /\ ~main.answers.proceed

\* C11: for every subcommand the process exits with code 0 when the
\* subcommand succeeds (its process_* function returns Ok, or updateMetadata
\* is declined at the last prompt) and with code 1 on every propagated error:
\* an Err returned by the process_* function, a signer that cannot be loaded,
\* a metadata account that cannot be read. No other exit has code 0 or 1.
C11_ExitCodes ==
    main.mpc = "Exited" =>
        /\ (result.returned /\ result.ok => main.exit_code = 0)
        /\ (result.returned /\ ~result.ok => main.exit_code = 1)
        /\ (main.signer = "failed" => main.exit_code = 1)
        /\ (MetadataReadFailed => main.exit_code = 1)
        /\ (main.exit_code = 0 => (result.returned /\ result.ok) \/ UpdateDeclined)
        /\ (main.exit_code = 1 =>
                \/ result.returned /\ ~result.ok
                \/ main.signer = "failed"
                \/ MetadataReadFailed)
        /\ (main.exit_code \notin {0, 1} => main.panicked)

\* freeze ends with code 1 after the node rejected the submission
C11_Witness ==
    /\ main.mpc = "Exited"
    /\ main.exit_code = 1
    /\ main.command = "freeze"
    /\ result.stage = SendStage

\* C14: in updateMetadata the metadata record is read from the address derived
\* from the mint before anything else is asked of the node and before the
\* update is configured or handed on; the record edited is the one read; a
\* failed read ends the process with an error after that single call, with
\* nothing configured, no blockhash fetched and nothing submitted.
C14_ReadBeforeUpdate ==
    main.command = "updateMetadata" =>
        /\ calls # <<>> =>
            /\ calls[1].method = "getAccountInfo"
            /\ calls[1].pubkey = Metadata_find_pda(main.mint_pubkey).address
        /\ (main.asked # <<>> \/ inv.op # "none") =>
            /\ calls # <<>>
            /\ calls[1].response.ok
            /\ Metadata_safe_deserialize(calls[1].response.value) = Some(main.metadata)
        /\ MetadataReadFailed =>
            /\ main.mpc = "Exited"
            /\ main.exit_code = 1
            /\ Len(calls) = 1
            /\ main.asked = <<>>
            /\ inv.op = "none"
            /\ tx = NoTx

\* the metadata account of the mint could not be read
C14_Witness ==
    /\ main.command = "updateMetadata"
    /\ MetadataReadFailed
    /\ main.mpc = "Exited"

\* the updateMetadata prompts were gone through without a panic
DialogCompleted ==
    /\ main.command = "updateMetadata"
    /\ main.asked # <<>>
    /\ ~main.panicked

\* C17: after the updateMetadata prompts the new record has each of name,
\* symbol, URI and seller fee replaced by the entered value exactly when the
\* metadata update was confirmed and the entry was non-empty, and the old value
\* otherwise; creators, collection and uses are those of the record read. The
\* builder holds the new record and the mutability answer exactly when the
\* metadata update was confirmed, a new update authority (the entered address)
\* exactly when the authority update was confirmed, and it is this builder that
\* is handed to process_update_metadata.
C17_NewRecord ==
    DialogCompleted =>
        LET a == main.answers
            old == main.metadata
            new == main.data
            b == main.builder
        IN  /\ new.name = IF a.update_data /\ a.name # "" THEN a.name ELSE old.name
            /\ new.symbol = IF a.update_data /\ a.symbol # "" THEN a.symbol ELSE old.symbol
            /\ new.uri = IF a.update_data /\ a.uri # "" THEN a.uri ELSE old.uri
            /\ new.seller_fee_basis_points =
                    IF a.update_data /\ a.seller_fee_basis_points # <<>>
                    THEN Decimal(a.seller_fee_basis_points)
                    ELSE old.seller_fee_basis_points
            /\ new.creators = old.creators
            /\ new.collection = old.collection
            /\ new.uses = old.uses
            /\ b.data = IF a.update_data THEN Some(new) ELSE None
            /\ b.is_mutable = IF a.update_data THEN Some(a.is_mutable) ELSE None
            /\ a.update_authority <=> b.new_update_authority # None
            /\ a.update_authority =>
                    a.new_authority = Pubkey_to_string(b.new_update_authority[2])
            /\ b.metadata = Some(main.metadata_pubkey)
            /\ b.update_authority = Some(SignerKey)
            /\ inv.op = "update_metadata" => inv.builder = b

\* a record with creators, collection and uses: the name is left blank, the
\* symbol and the fee are entered, the authority is changed
C17_Witness ==
    /\ DialogCompleted
    /\ main.answers.update_data
    /\ main.answers.name = ""
    /\ main.answers.symbol = "NEW"
    /\ main.answers.seller_fee_basis_points = <<"5", "0", "0">>
    /\ main.answers.update_authority
    /\ main.metadata.creators # None
    /\ main.metadata.name = "Old"
    /\ pc = "Done"
    /\ result.ok

\* C18: in updateMetadata a process_* call, a transaction, a blockhash fetch
\* or a submission exists only if the final prompt was shown and confirmed; when
\* it is shown and declined the process ends with code 0 having asked the node
\* for nothing but the metadata record, whatever the earlier answers were.
C18_SubmitOnlyIfConfirmed ==
    main.command = "updateMetadata" =>
        /\ (inv.op # "none" \/ tx # NoTx \/ FetchCalls # {} \/ SendCalls # {}) =>
            /\ main.asked # <<>>
            /\ main.asked[Len(main.asked)] = "Proceed with update?"
            /\ main.answers.proceed
        /\ UpdateDeclined =>
            /\ main.mpc = "Exited"
            /\ main.exit_code = 0
            /\ ~main.panicked
            /\ inv.op = "none"
            /\ tx = NoTx
            /\ FetchCalls = {}
            /\ SendCalls = {}
            /\ Len(calls) = 1

\* both updates were confirmed and filled in, then the final prompt declined
C18_Witness ==
    /\ UpdateDeclined
    /\ main.answers.update_data
    /\ main.answers.name = "New"
    /\ main.answers.update_authority
    /\ main.mpc = "Exited"

LocalsOf(t) == IF t = sched.cur THEN Locals ELSE sched.tasks[t]

\* the transaction an invocation with parameters p signs over blockhash h
OwnTransaction(p, h) ==
    try_sign(Transaction_new_unsigned(Message_new(<<BuildOf(p).ix>>, SignerKey)),
             BuildOf(p).keypairs, h, TRUE).tx

\* C13: with invocations interleaved at their awaits in every order, each keeps
\* the parameters it was started with and its own transaction and blockhash:
\* every submission is made by an invocation that fetched exactly one blockhash
\* itself, before submitting, and the transaction submitted is the one built
\* from that invocation's parameters and signed over that blockhash; the
\* blockhash an invocation holds is the one the node gave to it.
C13_OwnTransaction ==
    /\ Len(sched.owner) = Len(calls)
    /\ \A t \in Tasks :
        /\ LocalsOf(t).inv = sched.params[t]
        /\ LocalsOf(t).blockhash # UnsetBlockhash =>
                \E j \in FetchCalls : /\ sched.owner[j] = t
                                      /\ calls[j].response.value = LocalsOf(t).blockhash
    /\ \A i \in SendCalls :
        LET t == sched.owner[i]
            fetches == {j \in FetchCalls : sched.owner[j] = t}
        IN  /\ Cardinality(fetches) = 1
            /\ \A j \in fetches :
                /\ j < i
                /\ calls[j].response.ok
                /\ calls[i].tx = OwnTransaction(sched.params[t], calls[j].response.value)

\* two different invocations fetch different blockhashes one after the other,
\* then submit one after the other, and both are accepted
C13_Witness ==
    /\ sched.owner = <<1, 2, 1, 2>>
    /\ sched.params[1] # sched.params[2]
    /\ calls[1].response.value # calls[2].response.value
    /\ calls[3].method = "sendTransaction"
    /\ calls[4].method = "sendTransaction"
    /\ calls[3].response.ok
    /\ calls[4].response.ok
    /\ calls[3].tx # calls[4].tx

=============================================================================
